---- MODULE Spec2Model ----
(***************************************************************************)
(* FeedScheduler of rss-amplifier (feed-scheduler.js): the job lifecycle   *)
(* (start / stop / pause / resume), the feed operations (addFeed,          *)
(* removeFeed, updateFeedSchedule) and the Fetch-and-Retry routine         *)
(* (fetchAndUpdateFeed), together with the FeedManager it delegates to.    *)
(*                                                                         *)
(* Every async method is cut at its await points: the code between two     *)
(* awaits runs to completion on the single JavaScript thread and is one    *)
(* action here.  Timestamps are abstracted: a timestamp field is either    *)
(* Null or Stamp, and nextRun is the offset in minutes that getNextRunTime *)
(* adds to the call time.                                                  *)
(***************************************************************************)
EXTENDS Integers, Sequences, FiniteSets, TLC

(* ------------------------------ bounds ------------------------------- *)

\* attempt budget used for the engine's retryAttempts option
MaxRetries == 2
\* number of invocations that can be suspended at an await at one time
MaxCalls == 2
\* fetchAndUpdateFeed invocations that may finish in one behaviour
MaxUpdates == 2

(* ----------------------------- constants ----------------------------- *)

Null == "null"
Stamp == "stamp"
Absent == "absent"
NoFeed == [url |-> <<>>]
NoJob == [url |-> <<>>]
\* no scheduled-feeds.json: nothing to load, and no lastSaved
NoDoc == [feeds |-> <<>>, stats |-> <<>>, lastSaved |-> Null]

\* URLs are written as the base64 text of their bytes (Buffer.from(url)
\* .toString('base64') is injective), one symbol per element.
UrlA == <<"a", "+">>
UrlA2 == <<"a", "/">>
UrlB == <<"b", "+">>
Urls == {UrlA, UrlA2, UrlB}
\* the URLs the default specification registers
PlainUrls == {UrlA}

AlphaNum == {"a", "b"}

\* generateFeedId: strip every symbol that is not [a-zA-Z0-9]
generateFeedId(url) == SelectSeq(url, LAMBDA c : c \in AlphaNum)

FeedIds == {generateFeedId(u) : u \in Urls}

EveryFive == "*/5 * * * *"
EveryThirty == "*/30 * * * *"
Malformed == "invalid"

\* the constructor's defaultInterval
defaultInterval == EveryThirty

\* expressions node-cron's validate accepts, among those the model uses
ValidCron == {EveryFive, EveryThirty}

\* validateCronExpression(expression).valid
validateCronExpression(expression) ==
  /\ expression # Absent
  /\ expression \in ValidCron

\* getNextRunTime: minutes added to the call time
getNextRunTime(cronExpression) ==
  CASE cronExpression = EveryFive -> 5
    [] cronExpression = EveryThirty -> 30
    [] OTHER -> 30

Intervals == {EveryFive, EveryThirty, Malformed}

(* ------------------------------- state ------------------------------- *)

VARIABLES
  running,         \* this.running
  paused,          \* this.paused
  scheduledFeeds,  \* this.scheduledFeeds: feed id -> ScheduleRecord or NoFeed
  activeJobs,      \* this.activeJobs: feed id -> cron task or NoJob
  strayTasks,      \* started cron tasks no longer referenced by activeJobs
  stats,           \* this.stats
  persisted,       \* scheduled-feeds.json, or NoDoc
  fmFeeds,         \* FeedManager.feeds: the ids the Feed Store holds
  retryAttempts,   \* this.options.retryAttempts
  faults,          \* which collaborators may fail in this behaviour
  calls,           \* invocations suspended at an await, oldest first
  lastOp           \* the step just taken (history)

vars == <<running, paused, scheduledFeeds, activeJobs, strayTasks, stats,
          persisted, fmFeeds, retryAttempts, faults, calls, lastOp>>

engine == <<running, paused, scheduledFeeds, activeJobs, strayTasks, stats,
            persisted, fmFeeds>>

\* an invocation suspended at an await
Call == [op |-> "none", pc |-> "none", url |-> <<>>, id |-> <<>>,
         interval |-> Absent, enabled |-> TRUE, maxRetries |-> 0,
         attempt |-> 0, fetched |-> 0, upserted |-> 0, failed |-> 0]

\* lastOp: the operation or continuation that took the last step, the feed id
\* it was about, the success flag of the result it returned (FALSE when it
\* returned none) and the attempt number the result carries
Op(name, id, ok, n) == [name |-> name, id |-> id, ok |-> ok, n |-> n]

\* the model holds at most MaxCalls suspended invocations, oldest first
HasFree == Len(calls) < MaxCalls
Slots == 1..MaxCalls

Remove(seq, k) == [j \in 1..(Len(seq) - 1) |-> IF j < k THEN seq[j] ELSE seq[j + 1]]

(* --------------------------- cron tasks ------------------------------ *)

\* createScheduledJob: cron.schedule(expr, wrappedCallback, {scheduled: true});
\* the callback closes over the ScheduleRecord and reads its url when it fires
createScheduledJob(cronExpression, url) ==
  [url |-> url, interval |-> cronExpression, on |-> TRUE]

\* task.stop()
StopTask(job) == IF job = NoJob THEN NoJob ELSE [job EXCEPT !.on = FALSE]
\* task.start()
StartTask(job) == IF job = NoJob THEN NoJob ELSE [job EXCEPT !.on = TRUE]

\* createCronJob: this.activeJobs.set(feedId, job)
createCronJob(jobs, feedId, scheduledFeed) ==
  [jobs EXCEPT ![feedId] =
     createScheduledJob(scheduledFeed.interval, scheduledFeed.url)]

\* the task createCronJob's activeJobs.set drops without stopping it
Displaced(jobs, feedId) ==
  IF jobs[feedId] # NoJob /\ jobs[feedId].on
  THEN {[id |-> feedId, url |-> jobs[feedId].url,
         interval |-> jobs[feedId].interval]}
  ELSE {}

(* --------------------------- persistence ----------------------------- *)

\* saveScheduledFeeds: write {feeds, stats, lastSaved}; a write error is
\* logged only
saveScheduledFeeds(feeds, st, old, ok) ==
  IF ok THEN [feeds |-> feeds, stats |-> st, lastSaved |-> Stamp] ELSE old

DiskOutcomes == IF "disk" \in faults THEN {TRUE, FALSE} ELSE {TRUE}

Size(feeds) == Cardinality({i \in FeedIds : feeds[i] # NoFeed})

(* ------------------------------ Init --------------------------------- *)

InitEngine ==
  /\ running = FALSE
  /\ paused = FALSE
  /\ scheduledFeeds = [i \in FeedIds |-> NoFeed]
  /\ activeJobs = [i \in FeedIds |-> NoJob]
  /\ strayTasks = {}
  /\ stats = [totalFeeds |-> 0, successfulUpdates |-> 0, failedUpdates |-> 0,
              lastUpdateTime |-> Null]
  /\ persisted = NoDoc
  /\ fmFeeds = {}
  /\ calls = <<>>
  /\ lastOp = Op("new", <<>>, TRUE, 0)

Init ==
  /\ InitEngine
  /\ retryAttempts = MaxRetries
  /\ faults = {}

(* ---------------------------- lifecycle ------------------------------ *)

EnabledIds == {i \in FeedIds : scheduledFeeds[i] # NoFeed /\ scheduledFeeds[i].enabled}

\* mutant: start() without the `if (this.running) return` guard
startAlways ==
  /\ lastOp' = Op("start", <<>>, TRUE, 0)
  /\ running' = TRUE
  /\ paused' = FALSE
  /\ activeJobs' = [i \in FeedIds |->
       IF i \in EnabledIds
       THEN createCronJob(activeJobs, i, scheduledFeeds[i])[i]
       ELSE activeJobs[i]]
  /\ strayTasks' = strayTasks \cup
       UNION {Displaced(activeJobs, i) : i \in EnabledIds}
  /\ UNCHANGED <<scheduledFeeds, stats, persisted, fmFeeds, retryAttempts,
                 faults, calls>>

start ==
  /\ lastOp' = Op("start", <<>>, TRUE, 0)
  /\ IF running
     THEN UNCHANGED <<running, paused, activeJobs, strayTasks>>
     ELSE /\ running' = TRUE
          /\ paused' = FALSE
          /\ activeJobs' = [i \in FeedIds |->
               IF i \in EnabledIds
               THEN createCronJob(activeJobs, i, scheduledFeeds[i])[i]
               ELSE activeJobs[i]]
          /\ strayTasks' = strayTasks \cup
               UNION {Displaced(activeJobs, i) : i \in EnabledIds}
  /\ UNCHANGED <<scheduledFeeds, stats, persisted, fmFeeds, retryAttempts,
                 faults, calls>>

\* mutant: stop() that stops the tasks without clearing activeJobs
stopKeepsJobs ==
  /\ lastOp' = Op("stop", <<>>, TRUE, 0)
  /\ IF ~running
     THEN UNCHANGED <<running, paused, activeJobs>>
     ELSE /\ running' = FALSE
          /\ paused' = FALSE
          /\ activeJobs' = [i \in FeedIds |-> StopTask(activeJobs[i])]
  /\ UNCHANGED <<scheduledFeeds, strayTasks, stats, persisted, fmFeeds,
                 retryAttempts, faults, calls>>

\* mutant: stop() that also abandons the routines in flight
stopAbortsRoutines ==
  /\ lastOp' = Op("stop", <<>>, TRUE, 0)
  /\ IF ~running
     THEN UNCHANGED <<running, paused, activeJobs, calls>>
     ELSE /\ running' = FALSE
          /\ paused' = FALSE
          /\ activeJobs' = [i \in FeedIds |-> NoJob]
          /\ calls' = SelectSeq(calls, LAMBDA c : c.op # "fetch")
  /\ UNCHANGED <<scheduledFeeds, strayTasks, stats, persisted, fmFeeds,
                 retryAttempts, faults>>

stop ==
  /\ lastOp' = Op("stop", <<>>, TRUE, 0)
  /\ IF ~running
     THEN UNCHANGED <<running, paused, activeJobs>>
     ELSE /\ running' = FALSE
          /\ paused' = FALSE
          /\ activeJobs' = [i \in FeedIds |-> NoJob]
  /\ UNCHANGED <<scheduledFeeds, strayTasks, stats, persisted, fmFeeds,
                 retryAttempts, faults, calls>>

\* mutant: pause() that clears activeJobs as stop() does
pauseClears ==
  /\ lastOp' = Op("pause", <<>>, TRUE, 0)
  /\ IF ~running \/ paused
     THEN UNCHANGED <<paused, activeJobs>>
     ELSE /\ paused' = TRUE
          /\ activeJobs' = [i \in FeedIds |-> NoJob]
  /\ UNCHANGED <<running, scheduledFeeds, strayTasks, stats, persisted,
                 fmFeeds, retryAttempts, faults, calls>>

pause ==
  /\ lastOp' = Op("pause", <<>>, TRUE, 0)
  /\ IF ~running \/ paused
     THEN UNCHANGED <<paused, activeJobs>>
     ELSE /\ paused' = TRUE
          /\ activeJobs' = [i \in FeedIds |-> StopTask(activeJobs[i])]
  /\ UNCHANGED <<running, scheduledFeeds, strayTasks, stats, persisted,
                 fmFeeds, retryAttempts, faults, calls>>

\* mutant: resume clearing the flag without restarting the tasks
resumeFlagOnly ==
  /\ lastOp' = Op("resume", <<>>, TRUE, 0)
  /\ IF ~running \/ ~paused
     THEN UNCHANGED <<paused, activeJobs>>
     ELSE /\ paused' = FALSE
          /\ UNCHANGED activeJobs
  /\ UNCHANGED <<running, scheduledFeeds, strayTasks, stats, persisted,
                 fmFeeds, retryAttempts, faults, calls>>

resume ==
  /\ lastOp' = Op("resume", <<>>, TRUE, 0)
  /\ IF ~running \/ ~paused
     THEN UNCHANGED <<paused, activeJobs>>
     ELSE /\ paused' = FALSE
          /\ activeJobs' = [i \in FeedIds |-> StartTask(activeJobs[i])]
  /\ UNCHANGED <<running, scheduledFeeds, strayTasks, stats, persisted,
                 fmFeeds, retryAttempts, faults, calls>>

(* ------------------------ schedule records --------------------------- *)

StoreOutcomes == IF "store" \in faults THEN {"ok", "fail", "throw"} ELSE {"ok"}

\* the options bag of addFeed: interval (or Absent) and enabled
AddIntervals == {Absent, EveryFive, Malformed}
AddOptions == [interval : AddIntervals, enabled : BOOLEAN]
\* options that leave enabled at its default
PlainOptions == {o \in AddOptions : o.enabled}

\* the ScheduleRecord addFeed builds: the defaults, then ...options on top
NewScheduledFeed(url, interval, options) ==
  [url |-> url, interval |-> interval, nextRun |-> getNextRunTime(interval),
   lastRun |-> Null, lastSuccess |-> Null, failureCount |-> 0,
   enabled |-> options.enabled]

Suspend(rec) == calls' = Append(calls, rec)
Return(s) == calls' = Remove(calls, s)

\* mutant: addFeed registering the URL with the Feed Store before it validates
addFeedStoreFirst(url, options) ==
  LET feedId == generateFeedId(url)
      interval == IF options.interval = Absent THEN defaultInterval
                  ELSE options.interval
  IN /\ HasFree
     /\ fmFeeds' = fmFeeds \cup {feedId}
     /\ IF ~validateCronExpression(interval)
        THEN /\ lastOp' = Op("addFeed", feedId, FALSE, 0)
             /\ UNCHANGED calls
        ELSE /\ lastOp' = Op("addFeed.await", feedId, TRUE, 0)
             /\ Suspend([Call EXCEPT !.op = "addFeed", !.pc = "store",
                         !.url = url, !.id = feedId,
                         !.interval = interval,
                         !.enabled = options.enabled])
     /\ UNCHANGED <<running, paused, scheduledFeeds, activeJobs, strayTasks,
                    stats, persisted, retryAttempts, faults>>

\* addFeed up to `await this.options.feedManager.addFeed(url, options)`;
\* FeedManager.addFeed has stored the feed before its own await
addFeed(url, options) ==
  LET feedId == generateFeedId(url)
      interval == IF options.interval = Absent THEN defaultInterval
                  ELSE options.interval
  IN /\ HasFree
     /\ IF ~validateCronExpression(interval)
        THEN /\ lastOp' = Op("addFeed", feedId, FALSE, 0)
             /\ UNCHANGED <<fmFeeds, calls>>
        ELSE /\ lastOp' = Op("addFeed.await", feedId, TRUE, 0)
             /\ fmFeeds' = fmFeeds \cup {feedId}
             /\ Suspend([Call EXCEPT !.op = "addFeed", !.pc = "store",
                         !.url = url, !.id = feedId,
                         !.interval = interval,
                         !.enabled = options.enabled])
     /\ UNCHANGED <<running, paused, scheduledFeeds, activeJobs, strayTasks,
                    stats, persisted, retryAttempts, faults>>

\* mutant: addFeed after the await without `if (!feedResult.success) return`
addFeedResumeUnchecked(s, feedResult, diskOk) ==
  LET c == calls[s]
      scheduledFeed == NewScheduledFeed(c.url, c.interval, c)
      feeds == [scheduledFeeds EXCEPT ![c.id] = scheduledFeed]
      create == running /\ ~paused
  IN /\ s <= Len(calls)
     /\ c.op = "addFeed" /\ c.pc = "store"
     /\ Return(s)
     /\ lastOp' = Op("addFeed", c.id, feedResult = "ok", 0)
     /\ scheduledFeeds' = feeds
     /\ persisted' = saveScheduledFeeds(feeds, stats, persisted, diskOk)
     /\ activeJobs' = IF create
                      THEN createCronJob(activeJobs, c.id, scheduledFeed)
                      ELSE activeJobs
     /\ strayTasks' = IF create
                      THEN strayTasks \cup Displaced(activeJobs, c.id)
                      ELSE strayTasks
     /\ stats' = [stats EXCEPT !.totalFeeds = Size(feeds)]
     /\ UNCHANGED <<running, paused, fmFeeds, retryAttempts, faults>>

\* addFeed after the await, given the Feed Store's result
addFeedResume(s, feedResult, diskOk) ==
  LET c == calls[s]
      scheduledFeed == NewScheduledFeed(c.url, c.interval, c)
      feeds == [scheduledFeeds EXCEPT ![c.id] = scheduledFeed]
      create == running /\ ~paused
  IN /\ s <= Len(calls)
     /\ c.op = "addFeed" /\ c.pc = "store"
     /\ Return(s)
     /\ IF feedResult # "ok"
        THEN /\ lastOp' = Op("addFeed", c.id, FALSE, 0)
             /\ UNCHANGED <<scheduledFeeds, activeJobs, strayTasks, stats,
                            persisted>>
        ELSE /\ lastOp' = Op("addFeed", c.id, TRUE, 0)
             /\ scheduledFeeds' = feeds
             /\ persisted' = saveScheduledFeeds(feeds, stats, persisted, diskOk)
             /\ activeJobs' = IF create
                              THEN createCronJob(activeJobs, c.id, scheduledFeed)
                              ELSE activeJobs
             /\ strayTasks' = IF create
                              THEN strayTasks \cup Displaced(activeJobs, c.id)
                              ELSE strayTasks
             /\ stats' = [stats EXCEPT !.totalFeeds = Size(feeds)]
     /\ UNCHANGED <<running, paused, fmFeeds, retryAttempts, faults>>

\* removeFeed up to `await this.options.feedManager.removeFeed(feedId)`;
\* FeedManager.removeFeed has deleted the feed before its own await
removeFeed(feedId) ==
  /\ HasFree
  /\ IF scheduledFeeds[feedId] = NoFeed
     THEN /\ lastOp' = Op("removeFeed", feedId, FALSE, 0)
          /\ UNCHANGED <<activeJobs, fmFeeds, calls>>
     ELSE /\ lastOp' = Op("removeFeed.await", feedId, TRUE, 0)
          /\ activeJobs' = [activeJobs EXCEPT ![feedId] = NoJob]
          /\ fmFeeds' = fmFeeds \ {feedId}
          /\ Suspend([Call EXCEPT !.op = "removeFeed",
                      !.pc = "store", !.id = feedId])
  /\ UNCHANGED <<running, paused, scheduledFeeds, strayTasks, stats,
                 persisted, retryAttempts, faults>>

\* mutant: removeFeed after the await, with a failed write raised to its
\* catch block
removeFeedResumeDiskFatal(s, feedResult, diskOk) ==
  LET c == calls[s]
      feeds == [scheduledFeeds EXCEPT ![c.id] = NoFeed]
  IN /\ s <= Len(calls)
     /\ c.op = "removeFeed" /\ c.pc = "store"
     /\ Return(s)
     /\ scheduledFeeds' = IF feedResult = "throw" THEN scheduledFeeds ELSE feeds
     /\ IF feedResult = "throw" \/ ~diskOk
        THEN /\ lastOp' = Op("removeFeed", c.id, FALSE, 0)
             /\ UNCHANGED <<stats, persisted>>
        ELSE /\ lastOp' = Op("removeFeed", c.id, TRUE, 0)
             /\ persisted' = saveScheduledFeeds(feeds, stats, persisted, diskOk)
             /\ stats' = [stats EXCEPT !.totalFeeds = Size(feeds)]
     /\ UNCHANGED <<running, paused, activeJobs, strayTasks, fmFeeds,
                    retryAttempts, faults>>

\* removeFeed after the await; the Feed Store's result is ignored unless it
\* raised
removeFeedResume(s, feedResult, diskOk) ==
  LET c == calls[s]
      feeds == [scheduledFeeds EXCEPT ![c.id] = NoFeed]
  IN /\ s <= Len(calls)
     /\ c.op = "removeFeed" /\ c.pc = "store"
     /\ Return(s)
     /\ IF feedResult = "throw"
        THEN /\ lastOp' = Op("removeFeed", c.id, FALSE, 0)
             /\ UNCHANGED <<scheduledFeeds, stats, persisted>>
        ELSE /\ lastOp' = Op("removeFeed", c.id, TRUE, 0)
             /\ scheduledFeeds' = feeds
             /\ persisted' = saveScheduledFeeds(feeds, stats, persisted, diskOk)
             /\ stats' = [stats EXCEPT !.totalFeeds = Size(feeds)]
     /\ UNCHANGED <<running, paused, activeJobs, strayTasks, fmFeeds,
                    retryAttempts, faults>>

UpdateIntervals == {EveryFive, Malformed}

\* mutant: updateFeedSchedule without the cron validation
updateFeedScheduleUnvalidated(feedId, newInterval, diskOk) ==
  LET scheduledFeed == [scheduledFeeds[feedId] EXCEPT
                          !.interval = newInterval,
                          !.nextRun = getNextRunTime(newInterval)]
      feeds == [scheduledFeeds EXCEPT ![feedId] = scheduledFeed]
      recreate == running /\ ~paused
  IN /\ IF scheduledFeeds[feedId] = NoFeed
        THEN /\ lastOp' = Op("updateFeedSchedule", feedId, FALSE, 0)
             /\ UNCHANGED <<scheduledFeeds, persisted, activeJobs>>
        ELSE /\ lastOp' = Op("updateFeedSchedule", feedId, TRUE, 0)
             /\ scheduledFeeds' = feeds
             /\ persisted' = saveScheduledFeeds(feeds, stats, persisted, diskOk)
             /\ activeJobs' = IF recreate
                              THEN createCronJob(
                                     [activeJobs EXCEPT ![feedId] = NoJob],
                                     feedId, scheduledFeed)
                              ELSE activeJobs
     /\ UNCHANGED <<running, paused, strayTasks, stats, fmFeeds,
                    retryAttempts, faults, calls>>

\* updateFeedSchedule has no await: one step
updateFeedSchedule(feedId, newInterval, diskOk) ==
  LET scheduledFeed == [scheduledFeeds[feedId] EXCEPT
                          !.interval = newInterval,
                          !.nextRun = getNextRunTime(newInterval)]
      feeds == [scheduledFeeds EXCEPT ![feedId] = scheduledFeed]
      recreate == running /\ ~paused
  IN /\ IF scheduledFeeds[feedId] = NoFeed \/ ~validateCronExpression(newInterval)
        THEN /\ lastOp' = Op("updateFeedSchedule", feedId, FALSE, 0)
             /\ UNCHANGED <<scheduledFeeds, persisted, activeJobs>>
        ELSE /\ lastOp' = Op("updateFeedSchedule", feedId, TRUE, 0)
             /\ scheduledFeeds' = feeds
             /\ persisted' = saveScheduledFeeds(feeds, stats, persisted, diskOk)
             /\ activeJobs' = IF recreate
                              THEN createCronJob(
                                     [activeJobs EXCEPT ![feedId] = NoJob],
                                     feedId, scheduledFeed)
                              ELSE activeJobs
     /\ UNCHANGED <<running, paused, strayTasks, stats, fmFeeds,
                    retryAttempts, faults, calls>>

(* ----------------------- Fetch-and-Retry routine ---------------------- *)

Routines == {k \in 1..Len(calls) : calls[k].op = "fetch"}

\* the model starts a routine only while fewer than MaxUpdates have finished
\* or are under way, which caps the stats counters and failureCount
Budget ==
  stats.successfulUpdates + stats.failedUpdates + Cardinality(Routines) < MaxUpdates

\* options.retryAttempts of a direct call; 0 stands for an absent option too
RetryOptions == 0..MaxRetries

\* const maxRetries = options.retryAttempts || this.options.retryAttempts
maxRetriesOf(option) == IF option = 0 THEN retryAttempts ELSE option

\* fetchAndUpdateFeed up to the first `await importRSSFeed(url, options)`; a
\* budget below 1 skips the loop and the function returns no value
BeginFetch(url, maxRetries) ==
  IF 1 <= maxRetries
  THEN Suspend([Call EXCEPT !.op = "fetch", !.pc = "import", !.url = url,
                !.id = generateFeedId(url), !.maxRetries = maxRetries,
                !.attempt = 1, !.fetched = 1])
  ELSE UNCHANGED calls

fetchAndUpdateFeed(url, option) ==
  LET maxRetries == maxRetriesOf(option)
  IN /\ HasFree /\ Budget
     /\ BeginFetch(url, maxRetries)
     /\ lastOp' = IF 1 <= maxRetries
                  THEN Op("fetchAndUpdateFeed.await", generateFeedId(url), TRUE, 1)
                  ELSE Op("fetchAndUpdateFeed.void", generateFeedId(url), FALSE, 0)
     /\ UNCHANGED <<engine, retryAttempts, faults>>

\* mutant: the success path without `scheduledFeed.failureCount = 0`
FetchSucceededKeepsCount(k, diskOk) ==
  LET c == calls[k]
      st == [stats EXCEPT !.successfulUpdates = @ + 1, !.lastUpdateTime = Stamp]
      has == scheduledFeeds[c.id] # NoFeed
      scheduledFeed == scheduledFeeds[c.id]
      feeds == IF has
               THEN [scheduledFeeds EXCEPT ![c.id] =
                       [scheduledFeed EXCEPT
                          !.lastRun = Stamp, !.lastSuccess = Stamp,
                          !.nextRun = getNextRunTime(scheduledFeed.interval)]]
               ELSE scheduledFeeds
  IN /\ stats' = st
     /\ scheduledFeeds' = feeds
     /\ persisted' = IF has THEN saveScheduledFeeds(feeds, st, persisted, diskOk)
                     ELSE persisted
     /\ Return(k)
     /\ lastOp' = Op("fetchAndUpdateFeed", c.id, TRUE, c.attempt)

\* mutant: the success path writing the record whether or not the id is
\* still scheduled
FetchSucceededRecreates(k, diskOk) ==
  LET c == calls[k]
      st == [stats EXCEPT !.successfulUpdates = @ + 1, !.lastUpdateTime = Stamp]
      has == scheduledFeeds[c.id] # NoFeed
      scheduledFeed == IF has THEN scheduledFeeds[c.id]
                       ELSE NewScheduledFeed(c.url, defaultInterval,
                                             [interval |-> Absent, enabled |-> TRUE])
      feeds == [scheduledFeeds EXCEPT ![c.id] =
                  [scheduledFeed EXCEPT
                     !.lastRun = Stamp, !.lastSuccess = Stamp,
                     !.failureCount = 0,
                     !.nextRun = getNextRunTime(scheduledFeed.interval)]]
  IN /\ stats' = st
     /\ scheduledFeeds' = feeds
     /\ persisted' = saveScheduledFeeds(feeds, st, persisted, diskOk)
     /\ Return(k)
     /\ lastOp' = Op("fetchAndUpdateFeed", c.id, TRUE, c.attempt)

\* the success path: stats, then the record (if the id is scheduled) and save
FetchSucceeded(k, diskOk) ==
  LET c == calls[k]
      st == [stats EXCEPT !.successfulUpdates = @ + 1, !.lastUpdateTime = Stamp]
      has == scheduledFeeds[c.id] # NoFeed
      scheduledFeed == scheduledFeeds[c.id]
      feeds == IF has
               THEN [scheduledFeeds EXCEPT ![c.id] =
                       [scheduledFeed EXCEPT
                          !.lastRun = Stamp, !.lastSuccess = Stamp,
                          !.failureCount = 0,
                          !.nextRun = getNextRunTime(scheduledFeed.interval)]]
               ELSE scheduledFeeds
  IN /\ stats' = st
     /\ scheduledFeeds' = feeds
     /\ persisted' = IF has THEN saveScheduledFeeds(feeds, st, persisted, diskOk)
                     ELSE persisted
     /\ Return(k)
     /\ lastOp' = Op("fetchAndUpdateFeed", c.id, TRUE, c.attempt)

\* mutant: the catch block counting every failed attempt in failureCount
AttemptFailedCountsEach(k, diskOk) ==
  LET c == calls[k]
      st == [stats EXCEPT !.failedUpdates = @ + 1]
      has == scheduledFeeds[c.id] # NoFeed
      scheduledFeed == scheduledFeeds[c.id]
      feeds == IF has
               THEN [scheduledFeeds EXCEPT ![c.id] =
                       [scheduledFeed EXCEPT
                          !.lastRun = Stamp,
                          !.failureCount = @ + 1,
                          !.nextRun = getNextRunTime(scheduledFeed.interval)]]
               ELSE scheduledFeeds
  IN IF c.attempt = c.maxRetries
     THEN /\ stats' = st
          /\ scheduledFeeds' = feeds
          /\ persisted' = IF has
                          THEN saveScheduledFeeds(feeds, st, persisted, diskOk)
                          ELSE persisted
          /\ Return(k)
          /\ lastOp' = Op("fetchAndUpdateFeed", c.id, FALSE, c.maxRetries)
     ELSE /\ calls' = [calls EXCEPT ![k] =
                         [c EXCEPT !.pc = "delay", !.failed = @ + 1]]
          /\ lastOp' = Op("fetchAndUpdateFeed.retry", c.id, FALSE, c.attempt)
          /\ scheduledFeeds' = feeds
          /\ UNCHANGED <<stats, persisted>>

\* mutant: the catch block recording the final failure on every scheduled feed
AttemptFailedMarksAll(k, diskOk) ==
  LET c == calls[k]
      st == [stats EXCEPT !.failedUpdates = @ + 1]
      has == scheduledFeeds[c.id] # NoFeed
      feeds == [i \in FeedIds |->
                 IF scheduledFeeds[i] # NoFeed
                 THEN [scheduledFeeds[i] EXCEPT
                         !.lastRun = Stamp,
                         !.failureCount = @ + 1,
                         !.nextRun = getNextRunTime(scheduledFeeds[i].interval)]
                 ELSE NoFeed]
  IN IF c.attempt = c.maxRetries
     THEN /\ stats' = st
          /\ scheduledFeeds' = feeds
          /\ persisted' = IF has
                          THEN saveScheduledFeeds(feeds, st, persisted, diskOk)
                          ELSE persisted
          /\ Return(k)
          /\ lastOp' = Op("fetchAndUpdateFeed", c.id, FALSE, c.maxRetries)
     ELSE /\ calls' = [calls EXCEPT ![k] =
                         [c EXCEPT !.pc = "delay", !.failed = @ + 1]]
          /\ lastOp' = Op("fetchAndUpdateFeed.retry", c.id, FALSE, c.attempt)
          /\ UNCHANGED <<stats, scheduledFeeds, persisted>>

\* the catch block: the final attempt records the failure and returns, an
\* earlier one waits retryDelay
AttemptFailed(k, diskOk) ==
  LET c == calls[k]
      st == [stats EXCEPT !.failedUpdates = @ + 1]
      has == scheduledFeeds[c.id] # NoFeed
      scheduledFeed == scheduledFeeds[c.id]
      feeds == IF has
               THEN [scheduledFeeds EXCEPT ![c.id] =
                       [scheduledFeed EXCEPT
                          !.lastRun = Stamp,
                          !.failureCount = @ + 1,
                          !.nextRun = getNextRunTime(scheduledFeed.interval)]]
               ELSE scheduledFeeds
  IN IF c.attempt = c.maxRetries
     THEN /\ stats' = st
          /\ scheduledFeeds' = feeds
          /\ persisted' = IF has
                          THEN saveScheduledFeeds(feeds, st, persisted, diskOk)
                          ELSE persisted
          /\ Return(k)
          /\ lastOp' = Op("fetchAndUpdateFeed", c.id, FALSE, c.maxRetries)
     ELSE /\ calls' = [calls EXCEPT ![k] =
                         [c EXCEPT !.pc = "delay", !.failed = @ + 1]]
          /\ lastOp' = Op("fetchAndUpdateFeed.retry", c.id, FALSE, c.attempt)
          /\ UNCHANGED <<stats, scheduledFeeds, persisted>>

\* importRSSFeed settles: on success the routine calls feedManager.addFeed,
\* which stores the feed before its own await
importDone(k, ok, diskOk) ==
  LET c == calls[k]
  IN /\ k <= Len(calls)
     /\ c.op = "fetch" /\ c.pc = "import"
     /\ IF ok
        THEN /\ fmFeeds' = fmFeeds \cup {c.id}
             /\ calls' = [calls EXCEPT ![k] =
                           [c EXCEPT !.pc = "upsert", !.upserted = @ + 1]]
             /\ lastOp' = Op("fetchAndUpdateFeed.upsert", c.id, TRUE, c.attempt)
             /\ UNCHANGED <<stats, scheduledFeeds, persisted>>
        ELSE /\ AttemptFailed(k, diskOk)
             /\ UNCHANGED fmFeeds
     /\ UNCHANGED <<running, paused, activeJobs, strayTasks, retryAttempts,
                    faults>>

\* feedManager.addFeed settles
upsertDone(k, updateResult, diskOk) ==
  LET c == calls[k]
  IN /\ k <= Len(calls)
     /\ c.op = "fetch" /\ c.pc = "upsert"
     /\ IF updateResult = "ok"
        THEN FetchSucceeded(k, diskOk)
        ELSE AttemptFailed(k, diskOk)
     /\ UNCHANGED <<running, paused, activeJobs, strayTasks, fmFeeds,
                    retryAttempts, faults>>

\* mutant: the retry that stamps the record's lastRun before the next attempt
delayDoneStampsRun(k) ==
  LET c == calls[k]
  IN /\ k <= Len(calls)
     /\ c.op = "fetch" /\ c.pc = "delay"
     /\ calls' = [calls EXCEPT ![k] =
                    [c EXCEPT !.pc = "import", !.attempt = @ + 1,
                              !.fetched = @ + 1]]
     /\ lastOp' = Op("fetchAndUpdateFeed.await", c.id, TRUE, c.attempt + 1)
     /\ scheduledFeeds' =
          IF scheduledFeeds[c.id] # NoFeed
          THEN [scheduledFeeds EXCEPT ![c.id] =
                  [scheduledFeeds[c.id] EXCEPT !.lastRun = Stamp]]
          ELSE scheduledFeeds
     /\ UNCHANGED <<running, paused, activeJobs, strayTasks, stats, persisted,
                    fmFeeds, retryAttempts, faults>>

\* the retryDelay timeout elapses: attempt++ and the next importRSSFeed call
delayDone(k) ==
  LET c == calls[k]
  IN /\ k <= Len(calls)
     /\ c.op = "fetch" /\ c.pc = "delay"
     /\ calls' = [calls EXCEPT ![k] =
                    [c EXCEPT !.pc = "import", !.attempt = @ + 1,
                              !.fetched = @ + 1]]
     /\ lastOp' = Op("fetchAndUpdateFeed.await", c.id, TRUE, c.attempt + 1)
     /\ UNCHANGED <<engine, retryAttempts, faults>>

(* ------------------------------ timers -------------------------------- *)

\* the started cron tasks: those in activeJobs that run, and the strays
LiveTasks ==
  {[id |-> i, url |-> activeJobs[i].url, interval |-> activeJobs[i].interval] :
     i \in {j \in FeedIds : activeJobs[j] # NoJob /\ activeJobs[j].on}}
  \cup strayTasks

\* mutant: the callback without `if (this.paused) return`
fireUnchecked(task) ==
  /\ task \in LiveTasks
  /\ HasFree /\ Budget
  /\ BeginFetch(task.url, retryAttempts)
  /\ lastOp' = Op("fire", task.id, TRUE, 0)
  /\ UNCHANGED <<engine, retryAttempts, faults>>

\* a task's timer fires: the callback createCronJob wired
fire(task) ==
  /\ task \in LiveTasks
  /\ IF paused
     THEN /\ lastOp' = Op("fire", task.id, FALSE, 0)
          /\ UNCHANGED calls
     ELSE /\ HasFree /\ Budget
          /\ BeginFetch(task.url, retryAttempts)
          /\ lastOp' = Op("fire", task.id, TRUE, 0)
  /\ UNCHANGED <<engine, retryAttempts, faults>>

Tasks == [id : FeedIds, url : Urls, interval : ValidCron]

(* ------------------------------- Next --------------------------------- *)

Next ==
  \/ start
  \/ stop
  \/ pause
  \/ resume
  \/ \E u \in PlainUrls, o \in PlainOptions : addFeed(u, o)
  \/ \E s \in Slots, r \in StoreOutcomes, d \in DiskOutcomes : addFeedResume(s, r, d)
  \/ \E i \in FeedIds : removeFeed(i)
  \/ \E s \in Slots, r \in StoreOutcomes, d \in DiskOutcomes : removeFeedResume(s, r, d)
  \/ \E i \in FeedIds, n \in UpdateIntervals, d \in DiskOutcomes :
       updateFeedSchedule(i, n, d)
  \/ \E u \in PlainUrls, n \in RetryOptions : fetchAndUpdateFeed(u, n)
  \/ \E s \in Slots, ok \in BOOLEAN, d \in DiskOutcomes : importDone(s, ok, d)
  \/ \E s \in Slots, r \in StoreOutcomes, d \in DiskOutcomes : upsertDone(s, r, d)
  \/ \E s \in Slots : delayDone(s)
  \/ \E t \in Tasks : fire(t)

Spec == Init /\ [][Next]_vars

(* ------------------- two feeds, registered at start ------------------- *)

\* the ScheduleRecord of addFeed(url) with no options
PlainFeed(url) ==
  NewScheduledFeed(url, defaultInterval, [interval |-> Absent, enabled |-> TRUE])

PairFeeds ==
  [i \in FeedIds |-> IF i = generateFeedId(UrlA) THEN PlainFeed(UrlA)
                     ELSE PlainFeed(UrlB)]

\* a new engine after `await addFeed(UrlA); await addFeed(UrlB)`: the second
\* addFeed saved the document before it set stats.totalFeeds to 2
InitPair ==
  /\ running = FALSE
  /\ paused = FALSE
  /\ scheduledFeeds = PairFeeds
  /\ activeJobs = [i \in FeedIds |-> NoJob]
  /\ strayTasks = {}
  /\ stats = [totalFeeds |-> 2, successfulUpdates |-> 0, failedUpdates |-> 0,
              lastUpdateTime |-> Null]
  /\ persisted = [feeds |-> PairFeeds,
                  stats |-> [totalFeeds |-> 1, successfulUpdates |-> 0,
                             failedUpdates |-> 0, lastUpdateTime |-> Null],
                  lastSaved |-> Stamp]
  /\ fmFeeds = FeedIds
  /\ calls = <<>>
  /\ lastOp = Op("addFeed", generateFeedId(UrlB), TRUE, 0)
  /\ retryAttempts = MaxRetries
  /\ faults = {}

\* the engine's lifecycle and its timers, with no further feed operation
NextPair ==
  \/ start
  \/ stop
  \/ pause
  \/ resume
  \/ \E s \in Slots, ok \in BOOLEAN, d \in DiskOutcomes : importDone(s, ok, d)
  \/ \E s \in Slots, r \in StoreOutcomes, d \in DiskOutcomes : upsertDone(s, r, d)
  \/ \E s \in Slots : delayDone(s)
  \/ \E t \in Tasks : fire(t)

SpecPair == InitPair /\ [][NextPair]_vars

\* the same engine under fair timers: a started task's timer keeps firing,
\* an awaited import or upsert settles, and the retry delay elapses
FairTimers ==
  /\ \A t \in Tasks : WF_vars(fire(t))
  /\ WF_vars(\E s \in Slots, ok \in BOOLEAN, d \in DiskOutcomes : importDone(s, ok, d))
  /\ WF_vars(\E s \in Slots, r \in StoreOutcomes, d \in DiskOutcomes : upsertDone(s, r, d))
  /\ WF_vars(\E s \in Slots : delayDone(s))

FairSpec == InitPair /\ [][NextPair]_vars /\ FairTimers

(* ----------------------- failing collaborators ----------------------- *)

\* the operations of an engine whose collaborators may fail: the lifecycle
\* without pause, the feed operations, and the timers with their routines
NextFaults ==
  \/ start
  \/ stop
  \/ \E u \in PlainUrls, o \in PlainOptions : addFeed(u, o)
  \/ \E s \in Slots, r \in StoreOutcomes, d \in DiskOutcomes : addFeedResume(s, r, d)
  \/ \E i \in FeedIds : removeFeed(i)
  \/ \E s \in Slots, r \in StoreOutcomes, d \in DiskOutcomes : removeFeedResume(s, r, d)
  \/ \E i \in FeedIds, n \in UpdateIntervals, d \in DiskOutcomes :
       updateFeedSchedule(i, n, d)
  \/ \E s \in Slots, ok \in BOOLEAN, d \in DiskOutcomes : importDone(s, ok, d)
  \/ \E s \in Slots, r \in StoreOutcomes, d \in DiskOutcomes : upsertDone(s, r, d)
  \/ \E s \in Slots : delayDone(s)
  \/ \E t \in Tasks : fire(t)

\* a new engine constructed with options.feedManager set to a Feed Store whose
\* addFeed and removeFeed may report failure or raise
InitStoreFaults ==
  /\ InitEngine
  /\ retryAttempts = MaxRetries
  /\ faults = {"store"}

SpecStoreFaults == InitStoreFaults /\ [][NextFaults]_vars

\* a new engine whose dataPath may refuse a write of scheduled-feeds.json
InitDiskFaults ==
  /\ InitEngine
  /\ retryAttempts = MaxRetries
  /\ faults = {"disk"}

SpecDiskFaults == InitDiskFaults /\ [][NextFaults]_vars

(* ------------------------ configured retries ------------------------- *)

\* a new engine constructed with options.retryAttempts: the constructor's
\* `retryAttempts: options.retryAttempts || 3` is followed by `...options`,
\* which puts the caller's value back, 0 included
InitConfigured ==
  /\ InitEngine
  /\ retryAttempts \in 0..MaxRetries
  /\ faults = {}

SpecConfigured == InitConfigured /\ [][Next]_vars

(* -------------------------- colliding URLs --------------------------- *)

\* two URLs whose base64 texts differ only in symbols generateFeedId strips
CollidingUrls == {UrlA, UrlA2}

\* registration of both URLs on an engine that may be started
NextColliding ==
  \/ start
  \/ \E u \in CollidingUrls, o \in PlainOptions : addFeed(u, o)
  \/ \E s \in Slots, r \in StoreOutcomes, d \in DiskOutcomes : addFeedResume(s, r, d)
  \/ \E s \in Slots, ok \in BOOLEAN, d \in DiskOutcomes : importDone(s, ok, d)
  \/ \E s \in Slots, r \in StoreOutcomes, d \in DiskOutcomes : upsertDone(s, r, d)
  \/ \E s \in Slots : delayDone(s)
  \/ \E t \in Tasks : fire(t)

SpecColliding == Init /\ [][NextColliding]_vars

(* -------------------------- disabled feeds --------------------------- *)

\* the feed operations with every options bag, `enabled: false` included
NextDisabled ==
  \/ start
  \/ stop
  \/ \E u \in PlainUrls, o \in AddOptions : addFeed(u, o)
  \/ \E s \in Slots, r \in StoreOutcomes, d \in DiskOutcomes : addFeedResume(s, r, d)
  \/ \E i \in FeedIds, n \in UpdateIntervals, d \in DiskOutcomes :
       updateFeedSchedule(i, n, d)
  \/ \E s \in Slots, ok \in BOOLEAN, d \in DiskOutcomes : importDone(s, ok, d)
  \/ \E s \in Slots, r \in StoreOutcomes, d \in DiskOutcomes : upsertDone(s, r, d)
  \/ \E s \in Slots : delayDone(s)
  \/ \E t \in Tasks : fire(t)

SpecDisabled == Init /\ [][NextDisabled]_vars

(* ------------------------ removal under load ------------------------ *)

\* two scheduled feeds, with removals and timers and no further addFeed
NextRemoval ==
  \/ start
  \/ \E i \in FeedIds : removeFeed(i)
  \/ \E s \in Slots, r \in StoreOutcomes, d \in DiskOutcomes : removeFeedResume(s, r, d)
  \/ \E s \in Slots, ok \in BOOLEAN, d \in DiskOutcomes : importDone(s, ok, d)
  \/ \E s \in Slots, r \in StoreOutcomes, d \in DiskOutcomes : upsertDone(s, r, d)
  \/ \E s \in Slots : delayDone(s)
  \/ \E t \in Tasks : fire(t)

SpecRemoval == InitPair /\ [][NextRemoval]_vars

(* ------------------- a new engine from the document ------------------ *)

\* the constructor's statistics
FreshStats ==
  [totalFeeds |-> 0, successfulUpdates |-> 0, failedUpdates |-> 0,
   lastUpdateTime |-> Null]

\* the constructor's load: with no file the engine stays empty, otherwise the
\* document's feeds become the records and its stats are spread over the
\* constructor's
loadScheduledFeeds(doc) ==
  IF doc = NoDoc
  THEN [scheduledFeeds |-> [i \in FeedIds |-> NoFeed], stats |-> FreshStats]
  ELSE [scheduledFeeds |-> doc.feeds,
        stats |-> [f \in DOMAIN FreshStats |->
                     IF f \in DOMAIN doc.stats THEN doc.stats[f]
                     ELSE FreshStats[f]]]

(* ------------------------------ claims -------------------------------- *)

JobIds == {i \in FeedIds : activeJobs[i] # NoJob}

\* C1: start() acts only on a stopped engine.  Called while running or paused
\* it changes nothing; called while stopped it leaves the engine running, not
\* paused, with exactly one started Job per enabled ScheduleRecord, bound to
\* the record's interval, and creates no other task.  So after any number of
\* consecutive start() calls isRunning() is true.
StartIdempotent ==
  /\ [](lastOp.name = "start" => running)
  /\ [][lastOp'.name = "start" =>
          IF running
          THEN UNCHANGED <<engine, calls>>
          ELSE /\ running' /\ ~paused'
               /\ {i \in FeedIds : activeJobs'[i] # NoJob} = EnabledIds
               /\ \A i \in EnabledIds :
                    activeJobs'[i] = [url |-> scheduledFeeds[i].url,
                                      interval |-> scheduledFeeds[i].interval,
                                      on |-> TRUE]
               /\ UNCHANGED <<scheduledFeeds, strayTasks, stats, persisted,
                              fmFeeds, calls>>]_vars

\* start() was called on a paused engine that holds a Job, and changed nothing
StartIdempotentWitness ==
  /\ lastOp.name = "start"
  /\ running /\ paused
  /\ JobIds # {}

\* C2: whenever the engine is stopped the Job Table is empty
StoppedHasNoJobs == ~running => JobIds = {}

\* addFeed finished on an engine that has run (it left a stray task) and was
\* stopped: the feed has a record and no Job
StoppedHasNoJobsWitness ==
  /\ ~running
  /\ lastOp.name = "addFeed" /\ lastOp.ok
  /\ scheduledFeeds[lastOp.id] # NoFeed
  /\ strayTasks # {}

\* C3: pause() acts only on a running, not paused engine: it stops every
\* Job's timer and keeps the Job Table's feed ids (and each Job's binding);
\* on a stopped or already paused engine it changes nothing
PauseKeepsJobs ==
  [][lastOp'.name = "pause" =>
       IF running /\ ~paused
       THEN /\ running' /\ paused'
            /\ \A i \in FeedIds :
                 /\ (activeJobs'[i] # NoJob) = (activeJobs[i] # NoJob)
                 /\ activeJobs[i] # NoJob =>
                      /\ ~activeJobs'[i].on
                      /\ activeJobs'[i].url = activeJobs[i].url
                      /\ activeJobs'[i].interval = activeJobs[i].interval
            /\ UNCHANGED <<scheduledFeeds, strayTasks, stats, persisted,
                           fmFeeds, calls>>
       ELSE UNCHANGED <<engine, calls>>]_vars

\* pause() has just suspended a Job that is still in the Job Table
PauseKeepsJobsWitness ==
  /\ lastOp.name = "pause"
  /\ paused
  /\ \E i \in FeedIds : activeJobs[i] # NoJob /\ ~activeJobs[i].on

\* the engine has just been resumed and feed i has a Job
Resumed(i) ==
  /\ lastOp.name = "resume" /\ running /\ ~paused
  /\ activeJobs[i] # NoJob

\* C4: resume() on a paused engine leaves it running and not paused with the
\* same Jobs, all started; and under fair timers every Job of the resumed
\* engine fires and starts the routine, unless the engine is paused or
\* stopped again first (or the model's update budget is used up)
ResumeRestores ==
  /\ [][(lastOp'.name = "resume" /\ paused) =>
          /\ running' /\ ~paused'
          /\ \A i \in FeedIds :
               /\ (activeJobs'[i] = NoJob) = (activeJobs[i] = NoJob)
               /\ activeJobs[i] # NoJob => activeJobs'[i].on]_vars
  /\ \A i \in FeedIds :
       (Resumed(i) /\ Budget)
         ~> (lastOp = Op("fire", i, TRUE, 0) \/ paused \/ ~running \/ ~Budget)

\* a paused engine with both Jobs has just been resumed and can still fire
ResumeRestoresWitness ==
  /\ \A i \in FeedIds : Resumed(i) /\ activeJobs[i].on
  /\ Budget
  /\ stats.successfulUpdates + stats.failedUpdates > 0

\* C5: in every state in which a feed has a Job with a started timer, the
\* timer's recurrence expression is the interval of the feed's ScheduleRecord
JobFollowsRecordInterval ==
  \A i \in FeedIds :
    (activeJobs[i] # NoJob /\ activeJobs[i].on /\ scheduledFeeds[i] # NoFeed)
      => activeJobs[i].interval = scheduledFeeds[i].interval

\* C6: while the engine is stopped no timer fire starts a Fetch-and-Retry
\* routine
NoFireWhileStopped == ~(lastOp.name = "fire" /\ lastOp.ok /\ ~running)

\* the step taken is a step of the suspended invocation calls[k]
StepOf(k) ==
  /\ k <= Len(calls)
  /\ \/ calls' = Remove(calls, k)
     \/ Len(calls') = Len(calls) /\ calls'[k] # calls[k]

\* C7: with attempt budget N, when the fetcher has failed the first k < N
\* attempts and succeeds on the next one, the routine has called the fetcher
\* exactly k+1 times, returns success with attempt = k+1, and the feed's
\* ScheduleRecord then has failureCount = 0 and lastSuccess set
RetrySucceeds ==
  [][\A k \in Slots :
       (StepOf(k) /\ calls[k].op = "fetch" /\ calls[k].pc = "upsert") =>
         LET c == calls[k]
         IN /\ c.failed < c.maxRetries
            /\ c.fetched = c.failed + 1
            /\ calls' = Remove(calls, k)
            /\ lastOp' = Op("fetchAndUpdateFeed", c.id, TRUE, c.failed + 1)
            /\ stats'.successfulUpdates = stats.successfulUpdates + 1
            /\ scheduledFeeds[c.id] # NoFeed =>
                 /\ scheduledFeeds'[c.id].failureCount = 0
                 /\ scheduledFeeds'[c.id].lastSuccess = Stamp]_vars

\* a routine returned success on its second attempt for a scheduled feed,
\* after an earlier invocation had exhausted its budget
RetrySucceedsWitness ==
  /\ lastOp.name = "fetchAndUpdateFeed" /\ lastOp.ok /\ lastOp.n = 2
  /\ stats.failedUpdates > 0
  /\ scheduledFeeds[lastOp.id] # NoFeed
  /\ scheduledFeeds[lastOp.id].failureCount = 0
  /\ scheduledFeeds[lastOp.id].lastSuccess = Stamp

\* C8: with attempt budget N, the failure of an attempt changes failureCount
\* and failedUpdates only when it is the N-th: the routine has then called the
\* fetcher N times, returns failure with attempts = N, and failureCount and
\* failedUpdates are each exactly 1 higher; an earlier failure leaves both
\* as they were and the routine goes on to wait for its next attempt
RetryExhausted ==
  [][\A k \in Slots :
       (/\ StepOf(k) /\ calls[k].op = "fetch" /\ calls[k].pc = "import"
        /\ ~(Len(calls') = Len(calls) /\ calls'[k].pc = "upsert")) =>
         LET c == calls[k]
             has == scheduledFeeds[c.id] # NoFeed
         IN IF c.failed + 1 = c.maxRetries
            THEN /\ c.fetched = c.maxRetries
                 /\ calls' = Remove(calls, k)
                 /\ lastOp' = Op("fetchAndUpdateFeed", c.id, FALSE, c.maxRetries)
                 /\ stats'.failedUpdates = stats.failedUpdates + 1
                 /\ has => scheduledFeeds'[c.id].failureCount =
                             scheduledFeeds[c.id].failureCount + 1
            ELSE /\ Len(calls') = Len(calls)
                 /\ calls'[k].pc = "delay"
                 /\ UNCHANGED <<scheduledFeeds, stats>>]_vars

\* a routine with budget 2 returned failure after two attempts and the
\* feed's failureCount and failedUpdates are 1
RetryExhaustedWitness ==
  /\ lastOp = Op("fetchAndUpdateFeed", lastOp.id, FALSE, 2)
  /\ stats.failedUpdates = 1
  /\ scheduledFeeds[lastOp.id] # NoFeed
  /\ scheduledFeeds[lastOp.id].failureCount = 1

\* C9: a Job that fires while the engine is paused does nothing: no fetcher
\* call is started, no ScheduleRecord and no stats field changes
PausedFireIsNoOp ==
  [][(lastOp'.name = "fire" /\ paused) =>
       (~lastOp'.ok /\ UNCHANGED <<engine, calls>>)]_vars

\* a task fired on a paused engine
PausedFireIsNoOpWitness ==
  /\ lastOp.name = "fire" /\ ~lastOp.ok
  /\ running /\ paused

\* the step taken is a failed attempt of calls[k]: a retry or the final failure
FailedStepOf(k) ==
  /\ StepOf(k)
  /\ calls[k].op = "fetch"
  /\ \/ lastOp'.name = "fetchAndUpdateFeed.retry"
     \/ lastOp'.name = "fetchAndUpdateFeed" /\ ~lastOp'.ok

\* C10: a failed attempt of a feed's routine, final or not, leaves the engine
\* running, leaves the Job Table and all tasks as they were, leaves every
\* other feed's ScheduleRecord, every other suspended routine and
\* successfulUpdates unchanged; and every routine that completes successfully
\* adds 1 to successfulUpdates
FailureIsolated ==
  [][/\ \A k \in Slots :
          FailedStepOf(k) =>
            /\ UNCHANGED <<running, paused, activeJobs, strayTasks>>
            /\ \A i \in FeedIds \ {calls[k].id} :
                 scheduledFeeds'[i] = scheduledFeeds[i]
            /\ stats'.successfulUpdates = stats.successfulUpdates
            /\ \/ calls' = Remove(calls, k)
               \/ \A j \in 1..Len(calls) : j # k => calls'[j] = calls[j]
     /\ (lastOp'.name = "fetchAndUpdateFeed" /\ lastOp'.ok) =>
          stats'.successfulUpdates = stats.successfulUpdates + 1]_vars

\* one feed's routine has exhausted its budget, and the other feed's routine
\* has just completed successfully on an engine that still runs with both
\* Jobs and an untouched failureCount of its own
FailureIsolatedWitness ==
  \E a \in FeedIds, b \in FeedIds :
    /\ a # b
    /\ running
    /\ scheduledFeeds[a].failureCount = 1
    /\ lastOp = Op("fetchAndUpdateFeed", b, TRUE, lastOp.n)
    /\ scheduledFeeds[b].failureCount = 0
    /\ scheduledFeeds[b].lastSuccess = Stamp
    /\ stats.successfulUpdates = 1 /\ stats.failedUpdates = 1
    /\ activeJobs[a] # NoJob /\ activeJobs[b] # NoJob

\* the interval addFeed validates: options.interval || defaultInterval
IntervalOf(options) ==
  IF options.interval = Absent THEN defaultInterval ELSE options.interval

\* C11: addFeed with an interval that fails cron validation returns
\* {success: false} in the same step and changes nothing: no ScheduleRecord,
\* no Job, stats, the persisted document and the Feed Store are as before, and
\* no call is left waiting for the Feed Store
InvalidAddChangesNothing ==
  [][\A u \in Urls, o \in AddOptions :
       (addFeed(u, o) /\ ~validateCronExpression(IntervalOf(o))) =>
          /\ lastOp' = Op("addFeed", generateFeedId(u), FALSE, 0)
          /\ UNCHANGED <<engine, calls>>]_vars

\* addFeed has just rejected an interval on a running engine that already
\* schedules the URL with a Job
InvalidAddChangesNothingWitness ==
  \E i \in FeedIds :
    /\ lastOp = Op("addFeed", i, FALSE, 0)
    /\ running
    /\ scheduledFeeds[i] # NoFeed /\ scheduledFeeds[i].interval = defaultInterval
    /\ activeJobs[i] # NoJob
    /\ i \in fmFeeds
    /\ faults = {}

\* C12: when the Feed Store's registration fails, reported or raised, the
\* addFeed that waited for it returns failure and leaves the Schedule Store in
\* memory and on disk, the Job Table, the tasks, stats and the engine's flags
\* as they were
StoreFailureAddsNothing ==
  [][\A k \in Slots, r \in {"fail", "throw"}, d \in DiskOutcomes :
       addFeedResume(k, r, d) =>
          /\ lastOp' = Op("addFeed", calls[k].id, FALSE, 0)
          /\ UNCHANGED <<scheduledFeeds, persisted, activeJobs, strayTasks,
                         stats, running, paused>>]_vars

\* on a running engine an addFeed whose registration failed has returned
\* failure, and the URL has neither a ScheduleRecord nor a Job
StoreFailureAddsNothingWitness ==
  \E i \in FeedIds :
    /\ "store" \in faults
    /\ lastOp = Op("addFeed", i, FALSE, 0)
    /\ calls = <<>>
    /\ running
    /\ scheduledFeeds[i] = NoFeed /\ activeJobs[i] = NoJob
    /\ persisted = NoDoc
    /\ i \in fmFeeds

\* C13: when removeFeed(id) has just returned success, id has neither a
\* ScheduleRecord nor a Job; when it has just returned failure for an id that
\* was not scheduled, id is still not scheduled
RemovedLeavesNothing ==
  lastOp.name = "removeFeed" =>
    IF lastOp.ok
    THEN scheduledFeeds[lastOp.id] = NoFeed /\ activeJobs[lastOp.id] = NoJob
    ELSE faults = {} => scheduledFeeds[lastOp.id] = NoFeed

\* C14: whatever the Feed Store's remove does (succeed, report failure or
\* raise), the removeFeed that waited for it returns with the ScheduleRecord
\* deleted in memory and in the persisted document
RemoveCleansUpDespiteStore ==
  [][\A k \in Slots, r \in StoreOutcomes, d \in DiskOutcomes :
       removeFeedResume(k, r, d) =>
          /\ scheduledFeeds'[calls[k].id] = NoFeed
          /\ persisted'.feeds[calls[k].id] = NoFeed]_vars

\* C15: updateFeedSchedule with an id that has no ScheduleRecord, or with an
\* interval that fails cron validation, returns {success: false} and leaves
\* every ScheduleRecord, the Job Table, the tasks, the persisted document and
\* stats unchanged
RejectedUpdateChangesNothing ==
  [][\A i \in FeedIds, n \in Intervals, d \in DiskOutcomes :
       (/\ updateFeedSchedule(i, n, d)
        /\ scheduledFeeds[i] = NoFeed \/ ~validateCronExpression(n)) =>
          /\ lastOp' = Op("updateFeedSchedule", i, FALSE, 0)
          /\ UNCHANGED <<engine, calls>>]_vars

\* updateFeedSchedule has just been rejected for a feed that has a record on
\* the default interval and a started Job on a running engine
RejectedUpdateChangesNothingWitness ==
  \E i \in FeedIds :
    /\ lastOp = Op("updateFeedSchedule", i, FALSE, 0)
    /\ running /\ ~paused
    /\ scheduledFeeds[i] # NoFeed /\ scheduledFeeds[i].interval = defaultInterval
    /\ activeJobs[i] # NoJob /\ activeJobs[i].interval = defaultInterval
    /\ persisted.feeds[i].interval = defaultInterval

\* C16: no call of fetchAndUpdateFeed, direct or from a timer, ends without
\* returning a result value
EveryCallReturnsResult ==
  /\ lastOp.name # "fetchAndUpdateFeed.void"
  /\ (lastOp.name = "fire" /\ lastOp.ok) => Len(calls) > 0

\* C17: a step whose write of the backing document fails still returns the
\* operation's normal result and applies the mutation in memory: addFeed
\* returns success with the new record and totalFeeds, removeFeed returns
\* success with the record gone and totalFeeds, updateFeedSchedule returns
\* success with the new interval, and the routine returns its outcome with
\* the counters and the record's failureCount / lastSuccess updated
WriteFailureKeepsMutation ==
  [][/\ \A k \in Slots :
          addFeedResume(k, "ok", FALSE) =>
            /\ lastOp' = Op("addFeed", calls[k].id, TRUE, 0)
            /\ scheduledFeeds'[calls[k].id] =
                 NewScheduledFeed(calls[k].url, calls[k].interval, calls[k])
            /\ stats'.totalFeeds = Size(scheduledFeeds')
     /\ \A k \in Slots :
          removeFeedResume(k, "ok", FALSE) =>
            /\ lastOp' = Op("removeFeed", calls[k].id, TRUE, 0)
            /\ scheduledFeeds'[calls[k].id] = NoFeed
            /\ stats'.totalFeeds = Size(scheduledFeeds')
     /\ \A i \in FeedIds, n \in ValidCron :
          (updateFeedSchedule(i, n, FALSE) /\ scheduledFeeds[i] # NoFeed) =>
            /\ lastOp' = Op("updateFeedSchedule", i, TRUE, 0)
            /\ scheduledFeeds'[i].interval = n
            /\ scheduledFeeds'[i].nextRun = getNextRunTime(n)
     /\ \A k \in Slots :
          upsertDone(k, "ok", FALSE) =>
            /\ lastOp' = Op("fetchAndUpdateFeed", calls[k].id, TRUE, calls[k].attempt)
            /\ stats'.successfulUpdates = stats.successfulUpdates + 1
            /\ scheduledFeeds[calls[k].id] # NoFeed =>
                 /\ scheduledFeeds'[calls[k].id].lastSuccess = Stamp
                 /\ scheduledFeeds'[calls[k].id].failureCount = 0
     /\ \A k \in Slots :
          (importDone(k, FALSE, FALSE) /\ calls[k].attempt = calls[k].maxRetries) =>
            /\ lastOp' = Op("fetchAndUpdateFeed", calls[k].id, FALSE, calls[k].maxRetries)
            /\ stats'.failedUpdates = stats.failedUpdates + 1
            /\ scheduledFeeds[calls[k].id] # NoFeed =>
                 scheduledFeeds'[calls[k].id].failureCount =
                   scheduledFeeds[calls[k].id].failureCount + 1]_vars

\* removeFeed has just returned success with the record gone from memory,
\* while the document on disk, last written by addFeed, still holds it
WriteFailureKeepsMutationWitness ==
  \E i \in FeedIds :
    /\ "disk" \in faults
    /\ lastOp = Op("removeFeed", i, TRUE, 0)
    /\ scheduledFeeds[i] = NoFeed
    /\ stats.totalFeeds = 0
    /\ persisted # NoDoc
    /\ persisted.feeds[i] # NoFeed

\* C18: a ScheduleRecord is never replaced by a record of another URL: as long
\* as an id stays scheduled, its record keeps its URL
RecordKeepsUrl ==
  [][\A i \in FeedIds :
       (scheduledFeeds[i] # NoFeed /\ scheduledFeeds'[i] # NoFeed) =>
          scheduledFeeds'[i].url = scheduledFeeds[i].url]_vars

\* C19: a routine touches the ScheduleRecords, stats and the persisted
\* document only in the step in which it returns: the step that starts it,
\* a failed attempt that is not the last, the backoff that follows and the
\* start of the next attempt leave all three as they were
BackoffChangesNothing ==
  [][/\ \A k \in Slots :
          (/\ StepOf(k) /\ calls[k].op = "fetch"
           /\ Len(calls') = Len(calls)) =>
             UNCHANGED <<scheduledFeeds, stats, persisted>>
     /\ (lastOp'.name \in {"fire", "fetchAndUpdateFeed.await", "fetchAndUpdateFeed.retry"}) =>
          UNCHANGED <<scheduledFeeds, stats, persisted>>]_vars

\* a routine with budget 2 is about to make its second attempt after a failed
\* first one and a backoff, and the feed's record and the counters are those
\* of a feed that was never fetched
BackoffChangesNothingWitness ==
  \E k \in 1..Len(calls) :
    /\ calls[k].op = "fetch" /\ calls[k].pc = "import"
    /\ calls[k].attempt = 2 /\ calls[k].failed = 1
    /\ lastOp = Op("fetchAndUpdateFeed.await", calls[k].id, TRUE, 2)
    /\ scheduledFeeds[calls[k].id] # NoFeed
    /\ scheduledFeeds[calls[k].id].failureCount = 0
    /\ scheduledFeeds[calls[k].id].lastRun = Null
    /\ stats.failedUpdates = 0 /\ stats.successfulUpdates = 0

\* C20: an invocation of the routine calls the Feed Store's upsert at most
\* once, and an invocation that has called it returns success
UpsertAtMostOnce ==
  [][\A k \in Slots :
       (StepOf(k) /\ calls[k].op = "fetch") =>
          IF Len(calls') = Len(calls)
          THEN calls'[k].upserted <= 1
          ELSE calls[k].upserted > 0 =>
                 lastOp' = Op("fetchAndUpdateFeed", calls[k].id, TRUE,
                              calls[k].attempt)]_vars

\* C21: when an invocation of the routine has just returned, success or
\* exhausted, the document on disk has been written and holds the stats and
\* the feed's ScheduleRecord that are in memory
RoutinePersistsResult ==
  lastOp.name = "fetchAndUpdateFeed" =>
    /\ persisted.lastSaved = Stamp
    /\ persisted.stats = stats
    /\ persisted.feeds[lastOp.id] = scheduledFeeds[lastOp.id]

\* the routines in flight for feed i
InFlight(i) == {k \in 1..Len(calls) : calls[k].op = "fetch" /\ calls[k].id = i}

\* C22: a routine in flight makes its attempts one after another, never more
\* than its budget N >= 1; stop() and pause() leave every routine in flight as
\* it is; a routine ends by returning one outcome, which adds exactly 1 to
\* successfulUpdates or to failedUpdates; and when the awaited fetches, upserts
\* and backoffs settle, every feed with a routine in flight sees a routine
\* return
RoutineRunsToItsEnd ==
  /\ [](\A k \in 1..Len(calls) :
          calls[k].op = "fetch" =>
            /\ 1 <= calls[k].attempt /\ calls[k].attempt <= calls[k].maxRetries
            /\ calls[k].fetched = calls[k].attempt
            /\ calls[k].failed =
                 IF calls[k].pc = "delay" THEN calls[k].attempt
                 ELSE calls[k].attempt - 1)
  /\ [][/\ lastOp'.name \in {"stop", "pause"} => calls' = calls
        /\ lastOp'.name = "fetchAndUpdateFeed" =>
             /\ Len(calls') = Len(calls) - 1
             /\ stats'.successfulUpdates + stats'.failedUpdates =
                  stats.successfulUpdates + stats.failedUpdates + 1
             /\ lastOp'.ok = (stats'.successfulUpdates = stats.successfulUpdates + 1)]_vars
  /\ \A i \in FeedIds :
       (InFlight(i) # {}) ~> (lastOp.name = "fetchAndUpdateFeed" /\ lastOp.id = i)

\* stop() has just been called while a routine waits in its backoff after a
\* failed first attempt
RoutineRunsToItsEndWitness ==
  /\ lastOp.name = "stop"
  /\ ~running
  /\ \E k \in 1..Len(calls) :
       /\ calls[k].op = "fetch" /\ calls[k].pc = "delay"
       /\ calls[k].attempt = 1 /\ calls[k].maxRetries = MaxRetries

\* C23: when the engine is running, not paused, and no operation waits at an
\* await, every enabled ScheduleRecord has a Job in the Job Table
EnabledRecordHasJob ==
  (running /\ ~paused /\ calls = <<>>) =>
    \A i \in EnabledIds : activeJobs[i] # NoJob

\* C24: every started timer is the one the Job Table holds under its feed-id:
\* no started task exists outside the Job Table
OneTimerPerFeed == strayTasks = {}

\* C25: every feed-id in the Job Table has a ScheduleRecord
JobHasRecord ==
  \A i \in FeedIds : activeJobs[i] # NoJob => scheduledFeeds[i] # NoFeed

\* C26: a ScheduleRecord with enabled = false has no Job
DisabledHasNoJob ==
  \A i \in FeedIds :
    (scheduledFeeds[i] # NoFeed /\ ~scheduledFeeds[i].enabled) =>
       activeJobs[i] = NoJob

\* C27: with no addFeed after the feeds were registered, a feed whose
\* ScheduleRecord has been removed is not in the Feed Store
RemovedStaysOutOfStore ==
  \A i \in FeedIds : scheduledFeeds[i] = NoFeed => i \notin fmFeeds

\* C28: no step of a Fetch-and-Retry Routine whose feed has no ScheduleRecord
\* (it was removed while the routine was in flight) puts a record for the
\* id back, in memory or in the persisted document
RoutineKeepsRemoved ==
  [][\A k \in 1..Len(calls) :
       (StepOf(k) /\ calls[k].op = "fetch"
          /\ scheduledFeeds[calls[k].id] = NoFeed) =>
         /\ scheduledFeeds'[calls[k].id] = NoFeed
         /\ persisted'.feeds[calls[k].id] = NoFeed]_vars

RoutineKeepsRemovedWitness ==
  /\ lastOp.name = "fetchAndUpdateFeed"
  /\ lastOp.ok
  /\ scheduledFeeds[lastOp.id] = NoFeed
  /\ persisted.feeds[lastOp.id] = NoFeed
  /\ stats.successfulUpdates = 1
  /\ stats.totalFeeds = 1

\* C29: at most one Fetch-and-Retry Routine is in flight for a feed
OneRoutinePerFeed ==
  \A i \in FeedIds : Cardinality(InFlight(i)) <= 1

\* C30: with no operation mid-flight totalFeeds is the number of
\* ScheduleRecords, in the engine and in a new engine constructed from the
\* persisted document
TotalFeedsCountsRecords ==
  calls = <<>> =>
    LET fresh == loadScheduledFeeds(persisted)
    IN /\ stats.totalFeeds = Size(scheduledFeeds)
       /\ fresh.stats.totalFeeds = Size(fresh.scheduledFeeds)
====
